---- MODULE Spec2Model ----
(***************************************************************************)
(* Process supervisor of "Run on Boot/app3.py": six terminal slots, each   *)
(* with a child process started by start_terminal and stopped by           *)
(* stop_terminal, an output reader thread per started process, bulk        *)
(* start/stop routes and the delayed auto-start thread.                     *)
(*                                                                         *)
(* The shared dictionaries are not protected by any lock, so every         *)
(* statement that reads or writes them is a step of its own and the steps  *)
(* of different threads interleave freely.                                  *)
(***************************************************************************)
EXTENDS Integers, Sequences, FiniteSets, TLC

\* ---------------------------------------------------------------- bounds
\* Number of slots modelled (the source has range(1, 7)).
NumSlots == 2
\* Number of concurrent HTTP request threads.
NumCallers == 1
\* Number of processes that can be spawned in one run.
MaxProcs == 2
\* Number of lines a process writes before it can exit on its own.
MaxLines == 1
\* Number of spawn failures per slot in the concurrent specification.
MaxErrLines == 1
\* Number of spawn failures of slot 1 in the specification of the stored output.
RingErrLines == 101

\* Number of lines a slot's stored output holds when a client connects.
MaxStored == 7

\* ------------------------------------------------------------- constants
None == 0
AutoThread == 0
RingCapacity == 100
universal_newlines == TRUE
\* the number of lines sent to a client that connects
TailLines == 5

\* terminal_commands[id]['delay']
delay == <<2, 3, 4, 5, 1, 1>>

Slots == 1..NumSlots
InvalidIds == {0, 99}
Callers == 1..NumCallers
Threads == {AutoThread} \cup Callers
StartOps == {"start", "start_all", "auto"}

VARIABLES
  terminals,         \* slot -> [process, running]
  terminal_outputs,  \* slot -> sequence of stored lines
  auto_started,      \* the auto-start latch
  procs,             \* the processes spawned so far, in spawn order
  thr,               \* thread -> position in the handler it runs
  emitted,           \* socketio.emit('terminal_output', ...) calls, in order
  since,             \* history: slot -> a Start returned success and since
                     \* then no stop_terminal began and no process exited on its own
  quiet              \* history: thread -> it runs stop_all and no start_terminal
                     \* has run since its stop_all began

vars == <<terminals, terminal_outputs, auto_started, procs, thr, emitted, since, quiet>>

\* ------------------------------------------------------------ data
ErrLine == [kind |-> "error", proc |-> None, n |-> 0]
Line(p, k) == [kind |-> "out", proc |-> p, n |-> k]

\* f"Error starting terminal: {str(e)}" for the exception e
ErrMsg(e) == [kind |-> "error", proc |-> None, n |-> e]
\* the character '\n' in a text; a text is a sequence of lines and '\n'
NewLine == [kind |-> "nl", proc |-> None, n |-> 0]

NoResults == [i \in Slots |-> "none"]

IdleThread ==
  [op |-> "idle", pc |-> "idle", id |-> 0, process |-> None, newproc |-> None,
   old |-> None, resp |-> "none", results |-> NoResults,
   log |-> <<>>, ktrace |-> <<>>]

NewProc(id, n) ==
  [slot |-> id, alive |-> TRUE, cause |-> "none", gotInt |-> FALSE,
   killers |-> {}, out |-> n, wrote |-> 0, pipe |-> <<>>, pump |-> "none",
   closed |-> FALSE]

\* process.poll() is None
Alive(p) == p # None /\ procs[p].alive

\* id in terminals and terminals[id].get('process')
HasProcess(id) == id \in DOMAIN terminals /\ terminals[id].process # None

\* the id test dropped: every id is passed on to start_terminal / stop_terminal
IsValidId_NoUpper(id) == 1 <= id

\* 1 <= id <= 6
IsValidId(id) == 1 <= id /\ id <= NumSlots

\* terminal_commands[id] and terminal_outputs[id] exist
HasCommand(id) == id \in Slots

\* terminal_status
Status(id) ==
  IF IsValidId(id) /\ HasProcess(id) THEN Alive(terminals[id].process) ELSE FALSE

\* output.decode(...) on the str that a text-mode pipe returns raises
\* AttributeError
DecodeRaises == universal_newlines

\* the last RingCapacity lines
Trim(lines) ==
  IF Len(lines) > RingCapacity
  THEN SubSeq(lines, Len(lines) - RingCapacity + 1, Len(lines))
  ELSE lines

\* the default of .get('delay', 1) instead of the slot's delay
SettleDelay_Default(id) == 1

SettleDelay(id) == delay[id]

\* a sleep of thread t is over: a SIGKILL that t sent before it has taken effect
SleepDone(t) == \A p \in 1..Len(procs) : procs[p].alive => t \notin procs[p].killers

\* thread u is inside start_terminal
InStart(u) == thr[u].op \in StartOps /\ thr[u].pc \notin {"resp", "exit"}

\* history: thread t begins a start_terminal while other threads run stop_all
Disturbed(t) == [u \in Threads |-> IF u # t THEN FALSE ELSE quiet[u]]

Init ==
  /\ terminals = [i \in Slots |-> [process |-> None, running |-> FALSE]]
  /\ terminal_outputs = [i \in Slots |-> <<>>]
  /\ auto_started = FALSE
  /\ procs = <<>>
  /\ thr = [t \in Threads |->
              IF t = AutoThread THEN [IdleThread EXCEPT !.pc = "boot"] ELSE IdleThread]
  /\ emitted = <<>>
  /\ since = [i \in Slots |-> FALSE]
  /\ quiet = [t \in Threads |-> FALSE]

\* ------------------------------------------------------------ the child processes
ProcWrite(p) ==
  /\ p \in 1..Len(procs)
  /\ procs[p].alive /\ procs[p].out > 0 /\ ~procs[p].closed
  /\ procs' = [procs EXCEPT ![p].out = @ - 1, ![p].wrote = @ + 1,
                            ![p].pipe = Append(@, procs[p].wrote + 1)]
  /\ UNCHANGED <<terminals, terminal_outputs, auto_started, thr, emitted, since, quiet>>

\* the write end of the output pipe is closed while the process goes on
\* running: the reader finds end of file and poll() is still None
ProcCloseStdout(p) ==
  /\ p \in 1..Len(procs)
  /\ procs[p].alive /\ ~procs[p].closed
  /\ procs' = [procs EXCEPT ![p].closed = TRUE]
  /\ UNCHANGED <<terminals, terminal_outputs, auto_started, thr, emitted, since, quiet>>

\* the process exits on its own
ProcExit(p) ==
  /\ p \in 1..Len(procs)
  /\ procs[p].alive /\ procs[p].out = 0 /\ procs[p].killers = {}
  /\ procs' = [procs EXCEPT ![p].alive = FALSE, ![p].cause = "self",
                            ![p].gotInt = FALSE]
  /\ since' = [since EXCEPT ![procs[p].slot] = FALSE]
  /\ UNCHANGED quiet
  /\ UNCHANGED <<terminals, terminal_outputs, auto_started, thr, emitted>>

\* the process terminates on the SIGINT it has received
ProcInterrupted(p) ==
  /\ p \in 1..Len(procs)
  /\ procs[p].alive /\ procs[p].gotInt /\ procs[p].killers = {}
  /\ procs' = [procs EXCEPT ![p].alive = FALSE, ![p].cause = "int",
                            ![p].gotInt = FALSE]
  /\ UNCHANGED <<terminals, terminal_outputs, auto_started, thr, emitted, since, quiet>>

\* the SIGKILL sent to the process takes effect
ProcKilled(p) ==
  /\ p \in 1..Len(procs)
  /\ procs[p].alive /\ procs[p].killers # {}
  /\ procs' = [procs EXCEPT ![p].alive = FALSE, ![p].cause = "kill",
                            ![p].gotInt = FALSE, ![p].killers = {}]
  /\ UNCHANGED <<terminals, terminal_outputs, auto_started, thr, emitted, since, quiet>>

\* ------------------------------------------------------------ read_process_output
\* the test of line 91 dropped: the reader goes on to read whatever poll() says
PumpPoll_NoExitTest(p) ==
  /\ p \in 1..Len(procs)
  /\ procs[p].pump = "poll"
  /\ procs' = [procs EXCEPT ![p].pump = "read"]
  /\ UNCHANGED <<terminals, terminal_outputs, auto_started, thr, emitted, since, quiet>>

\* lines 91-92
PumpPoll(p) ==
  /\ p \in 1..Len(procs)
  /\ procs[p].pump = "poll"
  /\ procs' = [procs EXCEPT ![p].pump = IF procs[p].alive THEN "read" ELSE "done"]
  /\ UNCHANGED <<terminals, terminal_outputs, auto_started, thr, emitted, since, quiet>>

PumpRead(p) ==
  /\ p \in 1..Len(procs)
  /\ procs[p].pump = "read"
  /\ IF procs[p].pipe # <<>>
     THEN LET k == Head(procs[p].pipe)
              id == procs[p].slot
          IN IF DecodeRaises
             THEN /\ procs' = [procs EXCEPT ![p].pipe = Tail(@), ![p].pump = "sleep"]
                  /\ UNCHANGED <<terminal_outputs, emitted>>
             ELSE /\ procs' = [procs EXCEPT ![p].pipe = Tail(@), ![p].pump = "poll"]
                  /\ terminal_outputs' =
                       [terminal_outputs EXCEPT ![id] = Trim(Append(@, Line(p, k)))]
                  /\ emitted' = Append(emitted, <<id, Line(p, k)>>)
     ELSE \* readline() blocks until a line or end of file; at end of file it
          \* returns '' and the loop goes on at once
          /\ ~procs[p].alive \/ procs[p].closed
          /\ procs' = [procs EXCEPT ![p].pump = "poll"]
          /\ UNCHANGED <<terminal_outputs, emitted>>
  /\ UNCHANGED <<terminals, auto_started, thr, since, quiet>>

\* line 96 raises (a byte sequence that is not valid UTF-8 on the text-mode
\* pipe, a closed file): lines 112-114
PumpReadError(p) ==
  /\ p \in 1..Len(procs)
  /\ procs[p].pump = "read"
  /\ procs' = [procs EXCEPT ![p].pump = "sleep"]
  /\ UNCHANGED <<terminals, terminal_outputs, auto_started, thr, emitted, since, quiet>>

\* line 114: time.sleep(0.1)
PumpSleep(p) ==
  /\ p \in 1..Len(procs)
  /\ procs[p].pump = "sleep"
  /\ procs' = [procs EXCEPT ![p].pump = "poll"]
  /\ UNCHANGED <<terminals, terminal_outputs, auto_started, thr, emitted, since, quiet>>

\* ------------------------------------------------------------ returns
\* the caller's continuation after start_terminal(id) returned ok
AfterStart(r, ok) ==
  LET q == [r EXCEPT !.old = None, !.newproc = None]
  IN IF q.op = "start"
     THEN [q EXCEPT !.pc = "resp", !.resp = IF ok THEN "started" ELSE "error"]
     ELSE [q EXCEPT !.pc = "a_sleep",
                    !.results[q.id] = IF ok THEN "started" ELSE "failed",
                    !.log = Append(@, <<"result", q.id, ok>>)]

\* the caller's continuation after stop_terminal(id) returned ok
AfterStop(r, ok) ==
  LET q == [r EXCEPT !.process = None, !.ktrace = <<>>]
  IN IF q.op \in StartOps
     THEN [q EXCEPT !.pc = "s_drain"]
     ELSE IF q.op = "stop"
     THEN [q EXCEPT !.pc = "resp", !.resp = IF ok THEN "stopped" ELSE "error"]
     ELSE LET w == [q EXCEPT !.results[q.id] = IF ok THEN "stopped" ELSE "failed"]
          IN IF q.id < NumSlots
             THEN [w EXCEPT !.id = q.id + 1, !.pc = "k_begin"]
             ELSE [w EXCEPT !.pc = "resp", !.resp = "completed"]

\* ------------------------------------------------------------ the routes
\* api_start_terminal
ApiStart(t, id) ==
  /\ t \in Callers /\ thr[t].pc = "idle"
  /\ thr' = [thr EXCEPT ![t] =
       IF IsValidId(id)
       THEN [IdleThread EXCEPT !.op = "start", !.id = id, !.pc = "s_check"]
       ELSE [IdleThread EXCEPT !.op = "start", !.id = id, !.pc = "resp",
                               !.resp = "invalid"]]
  /\ quiet' = IF IsValidId(id) THEN Disturbed(t) ELSE quiet
  /\ UNCHANGED <<terminals, terminal_outputs, auto_started, procs, emitted, since>>

\* api_stop_terminal
ApiStop(t, id) ==
  /\ t \in Callers /\ thr[t].pc = "idle"
  /\ thr' = [thr EXCEPT ![t] =
       IF IsValidId(id)
       THEN [IdleThread EXCEPT !.op = "stop", !.id = id, !.pc = "k_begin"]
       ELSE [IdleThread EXCEPT !.op = "stop", !.id = id, !.pc = "resp",
                               !.resp = "invalid"]]
  /\ UNCHANGED <<terminals, terminal_outputs, auto_started, procs, emitted, since, quiet>>

\* the running flag refreshed from poll(): terminal_status stores what it found
TerminalStatus_Refresh(t, id) ==
  /\ t \in Callers /\ thr[t].pc = "idle"
  /\ thr' = [thr EXCEPT ![t] =
       [IdleThread EXCEPT !.op = "status", !.id = id, !.pc = "resp",
                          !.resp = IF Status(id) THEN "running" ELSE "not_running"]]
  /\ terminals' = [i \in Slots |->
                     IF i = id THEN [terminals[i] EXCEPT !.running = Status(id)]
                     ELSE terminals[i]]
  /\ UNCHANGED <<terminal_outputs, auto_started, procs, emitted, since, quiet>>

\* terminal_status
TerminalStatus(t, id) ==
  /\ t \in Callers /\ thr[t].pc = "idle"
  /\ thr' = [thr EXCEPT ![t] =
       [IdleThread EXCEPT !.op = "status", !.id = id, !.pc = "resp",
                          !.resp = IF Status(id) THEN "running" ELSE "not_running"]]
  /\ UNCHANGED <<terminals, terminal_outputs, auto_started, procs, emitted, since, quiet>>

\* start_all: the first iteration of the loop
StartAll(t) ==
  /\ t \in Callers /\ thr[t].pc = "idle"
  /\ thr' = [thr EXCEPT ![t] =
       [IdleThread EXCEPT !.op = "start_all", !.id = 1, !.pc = "s_check",
                          !.log = <<<<"start", 1>>>>]]
  /\ quiet' = Disturbed(t)
  /\ UNCHANGED <<terminals, terminal_outputs, auto_started, procs, emitted, since>>

\* stop_all: the first iteration of the loop
StopAll(t) ==
  /\ t \in Callers /\ thr[t].pc = "idle"
  /\ thr' = [thr EXCEPT ![t] =
       [IdleThread EXCEPT !.op = "stop_all", !.id = 1, !.pc = "k_begin"]]
  /\ quiet' = [quiet EXCEPT ![t] = \A u \in Threads \ {t} : ~InStart(u)]
  /\ UNCHANGED <<terminals, terminal_outputs, auto_started, procs, emitted, since>>

\* delayed_auto_start and the latch test of auto_start_terminals
AutoStart(t) ==
  /\ t = AutoThread /\ thr[t].pc = "boot"
  /\ thr' = [thr EXCEPT ![t] =
       IF ~auto_started
       THEN [IdleThread EXCEPT !.op = "auto", !.id = 1, !.pc = "s_check",
                               !.log = <<<<"start", 1>>>>]
       ELSE [IdleThread EXCEPT !.op = "auto", !.pc = "exit"]]
  /\ quiet' = IF ~auto_started THEN Disturbed(t) ELSE quiet
  /\ UNCHANGED <<terminals, terminal_outputs, auto_started, procs, emitted, since>>

\* auto_start_terminals invoked again, by another thread
AutoStartAgain(t) ==
  /\ t \in Callers /\ thr[t].pc = "idle"
  /\ thr' = [thr EXCEPT ![t] =
       IF ~auto_started
       THEN [IdleThread EXCEPT !.op = "auto", !.id = 1, !.pc = "s_check",
                               !.log = <<<<"start", 1>>>>]
       ELSE [IdleThread EXCEPT !.op = "auto", !.pc = "exit"]]
  /\ quiet' = IF ~auto_started THEN Disturbed(t) ELSE quiet
  /\ UNCHANGED <<terminals, terminal_outputs, auto_started, procs, emitted, since>>

\* '\n'.join(lines)
Join(lines) ==
  LET F[k \in 0..Len(lines)] ==
        IF k = 0 THEN <<>>
        ELSE IF k = 1 THEN <<lines[1]>>
        ELSE F[k - 1] \o <<NewLine, lines[k]>>
  IN F[Len(lines)]

\* the cap dropped: all the stored lines are sent
LastFive_All(lines) == Join(lines)

\* '\n'.join(lines[-5:]) if len(lines) > 5 else '\n'.join(lines)
LastFive(lines) ==
  IF Len(lines) > TailLines
  THEN Join(SubSeq(lines, Len(lines) - TailLines + 1, Len(lines)))
  ELSE Join(lines)

\* last_five + '\n' if last_five else ''
ConnectOutput(lines) ==
  LET last_five == LastFive(lines)
  IN IF last_five # <<>> THEN Append(last_five, NewLine) ELSE <<>>

\* handle_connect: the connection_status event
Connect(t) ==
  /\ t \in Callers /\ thr[t].pc = "idle"
  /\ thr' = [thr EXCEPT ![t] =
       [IdleThread EXCEPT !.op = "connect", !.id = 1, !.pc = "c_emit",
                          !.log = <<<<"connection_status">>>>]]
  /\ UNCHANGED <<terminals, terminal_outputs, auto_started, procs, emitted, since, quiet>>

\* handle_connect: one iteration of the loop over the slots
ConnectEmit(t) ==
  /\ thr[t].pc = "c_emit"
  /\ LET r == thr[t]
         q == [r EXCEPT !.log = Append(@, <<"terminal_output", r.id,
                                           ConnectOutput(terminal_outputs[r.id])>>)]
     IN thr' = [thr EXCEPT ![t] =
          IF r.id < NumSlots
          THEN [q EXCEPT !.id = r.id + 1]
          ELSE [q EXCEPT !.pc = "resp", !.resp = "connected"]]
  /\ UNCHANGED <<terminals, terminal_outputs, auto_started, procs, emitted, since, quiet>>

\* the route's response is sent; the thread serves the next request
Respond(t) ==
  /\ thr[t].pc = "resp"
  /\ thr' = [thr EXCEPT ![t] = IdleThread]
  /\ quiet' = [quiet EXCEPT ![t] = FALSE]
  /\ UNCHANGED <<terminals, terminal_outputs, auto_started, procs, emitted, since>>

\* ------------------------------------------------------------ stop_terminal
\* line 175: the test of the stored process, and line 177
StopBegin(t) ==
  /\ thr[t].pc = "k_begin"
  /\ LET r == thr[t]
     IN thr' = [thr EXCEPT ![t] =
          IF HasProcess(r.id)
          THEN [r EXCEPT !.process = terminals[r.id].process, !.pc = "k_int"]
          ELSE AfterStop(r, FALSE)]
  /\ since' = [i \in Slots |-> IF i = thr[t].id THEN FALSE ELSE since[i]]
  /\ UNCHANGED quiet
  /\ UNCHANGED <<terminals, terminal_outputs, auto_started, procs, emitted>>

\* line 181: SIGINT to the process group; ProcessLookupError is ignored
StopInt(t) ==
  /\ thr[t].pc = "k_int"
  /\ LET p == thr[t].process
     IN procs' = IF Alive(p) THEN [procs EXCEPT ![p].gotInt = TRUE] ELSE procs
  /\ thr' = [thr EXCEPT ![t].pc = "k_wait", ![t].ktrace = Append(@, "int")]
  /\ UNCHANGED <<terminals, terminal_outputs, auto_started, emitted, since, quiet>>

\* line 186: time.sleep(1)
StopWait(t) ==
  /\ thr[t].pc = "k_wait"
  /\ SleepDone(t)
  /\ thr' = [thr EXCEPT ![t].pc = "k_poll", ![t].ktrace = Append(@, "wait")]
  /\ UNCHANGED <<terminals, terminal_outputs, auto_started, procs, emitted, since, quiet>>

\* the poll() test dropped: SIGKILL is sent whatever the grace wait achieved
StillAlive_Always(p) == TRUE

\* the escalation dropped: SIGKILL is never sent
StillAlive_Never(p) == FALSE

\* the process is still running after the grace wait
StillAlive(p) == Alive(p)

\* lines 189-193: SIGKILL to the process group if poll() is None
StopPoll(t) ==
  /\ thr[t].pc = "k_poll"
  /\ LET p == thr[t].process
     IN IF StillAlive(p)
        THEN /\ procs' = IF Alive(p)
                         THEN [procs EXCEPT ![p].killers = @ \cup {t}]
                         ELSE procs
             /\ thr' = [thr EXCEPT ![t].pc = "k_mark", ![t].ktrace = Append(@, "kill")]
        ELSE /\ procs' = procs
             /\ thr' = [thr EXCEPT ![t].pc = "k_mark"]
  /\ UNCHANGED <<terminals, terminal_outputs, auto_started, emitted, since, quiet>>

\* the index dropped: every slot is marked not running
StopMark_AllSlots(t) ==
  /\ thr[t].pc = "k_mark"
  /\ terminals' = [i \in Slots |-> [terminals[i] EXCEPT !.running = FALSE]]
  /\ thr' = [thr EXCEPT ![t] = AfterStop(thr[t], TRUE)]
  /\ UNCHANGED <<terminal_outputs, auto_started, procs, emitted, since, quiet>>

\* lines 195-196
StopMark(t) ==
  /\ thr[t].pc = "k_mark"
  /\ terminals' = [terminals EXCEPT ![thr[t].id].running = FALSE]
  /\ thr' = [thr EXCEPT ![t] = AfterStop(thr[t], TRUE)]
  /\ UNCHANGED <<terminal_outputs, auto_started, procs, emitted, since, quiet>>

\* ------------------------------------------------------------ start_terminal
\* line 123: the stored process is running
StoredRunning(id) == HasProcess(id) /\ Alive(terminals[id].process)

\* lines 123-124
StartCheck(t) ==
  /\ thr[t].pc = "s_check"
  /\ thr' = [thr EXCEPT ![t] =
       IF StoredRunning(thr[t].id)
       THEN [thr[t] EXCEPT !.old = terminals[thr[t].id].process, !.pc = "k_begin"]
       ELSE [thr[t] EXCEPT !.old = None, !.pc = "s_spawn"]]
  /\ UNCHANGED <<terminals, terminal_outputs, auto_started, procs, emitted, since, quiet>>

\* line 125: time.sleep(1)
StartDrain(t) ==
  /\ thr[t].pc = "s_drain"
  /\ SleepDone(t)
  /\ thr' = [thr EXCEPT ![t].pc = "s_spawn"]
  /\ UNCHANGED <<terminals, terminal_outputs, auto_started, procs, emitted, since, quiet>>

\* lines 129-148: subprocess.Popen succeeds (ok) or raises; the new process
\* will write n lines
StartSpawn(t, ok, n) ==
  /\ thr[t].pc = "s_spawn"
  /\ IF ~HasCommand(thr[t].id)
     THEN \* terminal_commands[id] raises KeyError, and so does
          \* terminal_outputs[id] in the handler
          /\ thr' = [thr EXCEPT ![t].pc = "resp", ![t].resp = "exception"]
          /\ procs' = procs
     ELSE IF ok
     THEN /\ Len(procs) < MaxProcs
          /\ procs' = Append(procs, NewProc(thr[t].id, n))
          /\ thr' = [thr EXCEPT ![t].newproc = Len(procs) + 1, ![t].pc = "s_store"]
     ELSE /\ procs' = procs
          /\ thr' = [thr EXCEPT ![t].pc = "s_err"]
  /\ UNCHANGED <<terminals, terminal_outputs, auto_started, emitted, since, quiet>>

\* the outcomes of Popen: the spawn fails while the slot holds fewer than
\* maxErr lines, the new process writes at most maxLines lines
Spawn(t, maxLines, maxErr) ==
  /\ thr[t].pc = "s_spawn"
  /\ \E ok \in BOOLEAN, n \in 0..maxLines :
       /\ ok \/ n = 0
       /\ ok \/ ~HasCommand(thr[t].id) \/ Len(terminal_outputs[thr[t].id]) < maxErr
       /\ StartSpawn(t, ok, n)

\* lines 151-155
StartStore(t) ==
  /\ thr[t].pc = "s_store"
  /\ terminals' = [terminals EXCEPT ![thr[t].id] =
                     [process |-> thr[t].newproc, running |-> TRUE]]
  /\ thr' = [thr EXCEPT ![t].pc = "s_ret"]
  /\ UNCHANGED <<terminal_outputs, auto_started, procs, emitted, since, quiet>>

\* lines 158-160: the reader thread is started and start_terminal returns True
StartReturn(t) ==
  /\ thr[t].pc = "s_ret"
  /\ procs' = [procs EXCEPT ![thr[t].newproc].pump = "poll"]
  /\ thr' = [thr EXCEPT ![t] = AfterStart(thr[t], TRUE)]
  /\ since' = [since EXCEPT ![thr[t].id] = procs[thr[t].newproc].cause # "self"]
  /\ UNCHANGED quiet
  /\ UNCHANGED <<terminals, terminal_outputs, auto_started, emitted>>

\* the emit dropped: the error line is stored and not published
StartError_Silent(t) ==
  /\ thr[t].pc = "s_err"
  /\ terminal_outputs' = [terminal_outputs EXCEPT ![thr[t].id] = Append(@, ErrLine)]
  /\ thr' = [thr EXCEPT ![t] = AfterStart(thr[t], FALSE)]
  /\ UNCHANGED <<terminals, auto_started, procs, emitted, since, quiet>>

\* lines 161-171: the error line is stored and emitted, start_terminal
\* returns False
StartError(t) ==
  /\ thr[t].pc = "s_err"
  /\ terminal_outputs' = [terminal_outputs EXCEPT ![thr[t].id] = Append(@, ErrLine)]
  /\ emitted' = Append(emitted, <<thr[t].id, ErrLine>>)
  /\ thr' = [thr EXCEPT ![t] = AfterStart(thr[t], FALSE)]
  /\ UNCHANGED <<terminals, auto_started, procs, since, quiet>>

\* ------------------------------------------------------------ start loops
\* lines 211-212 and 271-272: the settle delay, then the next slot or the end
SettleSleep(t) ==
  /\ thr[t].pc = "a_sleep"
  /\ SleepDone(t)
  /\ LET r == thr[t]
         q == [r EXCEPT !.log = Append(@, <<"sleep", r.id, SettleDelay(r.id)>>)]
     IN IF r.id < NumSlots
        THEN /\ thr' = [thr EXCEPT ![t] =
                  [q EXCEPT !.id = r.id + 1, !.pc = "s_check",
                            !.log = Append(@, <<"start", r.id + 1>>)]]
             /\ UNCHANGED auto_started
        ELSE IF r.op = "auto"
        THEN /\ thr' = [thr EXCEPT ![t] = [q EXCEPT !.pc = "exit"]]
             /\ auto_started' = TRUE
        ELSE /\ thr' = [thr EXCEPT ![t] = [q EXCEPT !.pc = "resp", !.resp = "completed"]]
             /\ UNCHANGED auto_started
  /\ UNCHANGED <<terminals, terminal_outputs, procs, emitted, since, quiet>>

\* ------------------------------------------------------------ specification
Next ==
  \/ \E t \in Callers, id \in Slots \cup InvalidIds : ApiStart(t, id)
  \/ \E t \in Callers, id \in Slots \cup InvalidIds : ApiStop(t, id)
  \/ \E t \in Callers, id \in Slots \cup InvalidIds : TerminalStatus(t, id)
  \/ \E t \in Callers : StartAll(t)
  \/ \E t \in Callers : StopAll(t)
  \/ AutoStart(AutoThread)
  \/ \E t \in Threads : Respond(t)
  \/ \E t \in Threads : StopBegin(t)
  \/ \E t \in Threads : StopInt(t)
  \/ \E t \in Threads : StopWait(t)
  \/ \E t \in Threads : StopPoll(t)
  \/ \E t \in Threads : StopMark(t)
  \/ \E t \in Threads : StartCheck(t)
  \/ \E t \in Threads : StartDrain(t)
  \/ \E t \in Threads : Spawn(t, 0, MaxErrLines)
  \/ \E t \in Threads : StartStore(t)
  \/ \E t \in Threads : StartReturn(t)
  \/ \E t \in Threads : StartError(t)
  \/ \E t \in Threads : SettleSleep(t)
  \/ \E p \in 1..MaxProcs : ProcExit(p)
  \/ \E p \in 1..MaxProcs : ProcInterrupted(p)
  \/ \E p \in 1..MaxProcs : ProcKilled(p)

Spec == Init /\ [][Next]_vars

\* One request thread, the child processes with their output and the reader
\* threads of read_process_output.
NextPump ==
  \/ \E t \in Callers, id \in Slots : ApiStart(t, id)
  \/ \E t \in Callers, id \in Slots : ApiStop(t, id)
  \/ \E t \in Callers : Respond(t)
  \/ \E t \in Callers : StopBegin(t)
  \/ \E t \in Callers : StopInt(t)
  \/ \E t \in Callers : StopWait(t)
  \/ \E t \in Callers : StopPoll(t)
  \/ \E t \in Callers : StopMark(t)
  \/ \E t \in Callers : StartCheck(t)
  \/ \E t \in Callers : StartDrain(t)
  \/ \E t \in Callers : Spawn(t, MaxLines, MaxErrLines)
  \/ \E t \in Callers : StartStore(t)
  \/ \E t \in Callers : StartReturn(t)
  \/ \E t \in Callers : StartError(t)
  \/ \E p \in 1..MaxProcs : ProcWrite(p)
  \/ \E p \in 1..MaxProcs : ProcExit(p)
  \/ \E p \in 1..MaxProcs : ProcInterrupted(p)
  \/ \E p \in 1..MaxProcs : ProcKilled(p)
  \/ \E p \in 1..MaxProcs : PumpPoll(p)
  \/ \E p \in 1..MaxProcs : PumpRead(p)
  \/ \E p \in 1..MaxProcs : PumpSleep(p)

SpecPump == Init /\ [][NextPump]_vars

\* The reader thread in full: one request thread that starts and stops
\* slot 1, the processes of the slot, which write, close their output or
\* exit, and their readers, whose reads can raise.
NextReader ==
  \/ \E t \in Callers : ApiStart(t, 1)
  \/ \E t \in Callers : ApiStop(t, 1)
  \/ \E t \in Callers : Respond(t)
  \/ \E t \in Callers : StopBegin(t)
  \/ \E t \in Callers : StopInt(t)
  \/ \E t \in Callers : StopWait(t)
  \/ \E t \in Callers : StopPoll(t)
  \/ \E t \in Callers : StopMark(t)
  \/ \E t \in Callers : StartCheck(t)
  \/ \E t \in Callers : StartDrain(t)
  \/ \E t \in Callers : Spawn(t, MaxLines, MaxErrLines)
  \/ \E t \in Callers : StartStore(t)
  \/ \E t \in Callers : StartReturn(t)
  \/ \E t \in Callers : StartError(t)
  \/ \E p \in 1..MaxProcs : ProcWrite(p)
  \/ \E p \in 1..MaxProcs : ProcCloseStdout(p)
  \/ \E p \in 1..MaxProcs : ProcExit(p)
  \/ \E p \in 1..MaxProcs : ProcInterrupted(p)
  \/ \E p \in 1..MaxProcs : ProcKilled(p)
  \/ \E p \in 1..MaxProcs : PumpPoll(p)
  \/ \E p \in 1..MaxProcs : PumpRead(p)
  \/ \E p \in 1..MaxProcs : PumpReadError(p)
  \/ \E p \in 1..MaxProcs : PumpSleep(p)

SpecReader == Init /\ [][NextReader]_vars

\* the reader thread of process p
PumpStep(p) == PumpPoll(p) \/ PumpRead(p) \/ PumpReadError(p) \/ PumpSleep(p)

\* SpecReader with every reader thread scheduled again and again
SpecReaderFair ==
  /\ SpecReader
  /\ \A p \in 1..MaxProcs : WF_vars(PumpStep(p))

\* The auto-start thread and a request thread that starts slots, with the
\* reader threads of the processes they spawn.
NextRace ==
  \/ AutoStart(AutoThread)
  \/ \E t \in Callers, id \in Slots : ApiStart(t, id)
  \/ \E t \in Callers : Respond(t)
  \/ \E t \in Threads : StopBegin(t)
  \/ \E t \in Threads : StopInt(t)
  \/ \E t \in Threads : StopWait(t)
  \/ \E t \in Threads : StopPoll(t)
  \/ \E t \in Threads : StopMark(t)
  \/ \E t \in Threads : StartCheck(t)
  \/ \E t \in Threads : StartDrain(t)
  \/ \E t \in Threads : Spawn(t, 0, MaxErrLines)
  \/ \E t \in Threads : StartStore(t)
  \/ \E t \in Threads : StartReturn(t)
  \/ \E t \in Threads : StartError(t)
  \/ \E t \in Threads : SettleSleep(t)
  \/ \E p \in 1..MaxProcs : ProcExit(p)
  \/ \E p \in 1..MaxProcs : ProcInterrupted(p)
  \/ \E p \in 1..MaxProcs : ProcKilled(p)
  \/ \E p \in 1..MaxProcs : PumpPoll(p)
  \/ \E p \in 1..MaxProcs : PumpRead(p)

SpecRace == Init /\ [][NextRace]_vars

\* One request thread that starts slot 1 again and again while Popen may fail
\* each time.
NextRing ==
  \/ \E t \in {1} : ApiStart(t, 1)
  \/ \E t \in {1} : Respond(t)
  \/ \E t \in {1} : StopBegin(t)
  \/ \E t \in {1} : StopInt(t)
  \/ \E t \in {1} : StopWait(t)
  \/ \E t \in {1} : StopPoll(t)
  \/ \E t \in {1} : StopMark(t)
  \/ \E t \in {1} : StartCheck(t)
  \/ \E t \in {1} : StartDrain(t)
  \/ \E t \in {1} : Spawn(t, 0, RingErrLines)
  \/ \E t \in {1} : StartStore(t)
  \/ \E t \in {1} : StartReturn(t)
  \/ \E t \in {1} : StartError(t)
  \/ \E p \in 1..MaxProcs : ProcInterrupted(p)
  \/ \E p \in 1..MaxProcs : ProcKilled(p)

SpecRing == Init /\ [][NextRing]_vars

\* The auto-start thread and request threads that invoke auto_start_terminals
\* again.
NextAuto ==
  \/ AutoStart(AutoThread)
  \/ \E t \in Callers : AutoStartAgain(t)
  \/ \E t \in Threads : StopBegin(t)
  \/ \E t \in Threads : StopInt(t)
  \/ \E t \in Threads : StopWait(t)
  \/ \E t \in Threads : StopPoll(t)
  \/ \E t \in Threads : StopMark(t)
  \/ \E t \in Threads : StartCheck(t)
  \/ \E t \in Threads : StartDrain(t)
  \/ \E t \in Threads : Spawn(t, 0, MaxErrLines)
  \/ \E t \in Threads : StartStore(t)
  \/ \E t \in Threads : StartReturn(t)
  \/ \E t \in Threads : StartError(t)
  \/ \E t \in Threads : SettleSleep(t)
  \/ \E p \in 1..MaxProcs : ProcExit(p)
  \/ \E p \in 1..MaxProcs : ProcInterrupted(p)
  \/ \E p \in 1..MaxProcs : ProcKilled(p)

SpecAuto == Init /\ [][NextAuto]_vars

\* the stored output after n failed starts with the messages 1..n
ErrLines(n) == [k \in 1..n |-> ErrMsg(k)]

\* A client connects while the slots hold the error lines of earlier failed
\* starts.
InitConnect ==
  /\ terminals = [i \in Slots |-> [process |-> None, running |-> FALSE]]
  /\ terminal_outputs \in [Slots -> {ErrLines(n) : n \in 0..MaxStored}]
  /\ auto_started = FALSE
  /\ procs = <<>>
  /\ thr = [t \in Threads |->
              IF t = AutoThread THEN [IdleThread EXCEPT !.pc = "boot"] ELSE IdleThread]
  /\ emitted = <<>>
  /\ since = [i \in Slots |-> FALSE]
  /\ quiet = [t \in Threads |-> FALSE]

NextConnect ==
  \/ \E t \in Callers : Connect(t)
  \/ \E t \in Callers : ConnectEmit(t)
  \/ \E t \in Callers : Respond(t)

SpecConnect == InitConnect /\ [][NextConnect]_vars

\* ------------------------------------------------------------ properties
\* the processes of slot id that are running
LiveOf(id) == {p \in 1..Len(procs) : procs[p].slot = id /\ procs[p].alive}

\* p has been spawned by a start_terminal that has not stored it yet
BeingStored(p) == \E t \in Threads : thr[t].pc = "s_store" /\ thr[t].newproc = p

\* C1: for every slot at most one process spawned for it is running, and a
\* running process of the slot is the one stored in terminals (or the one a
\* start_terminal is about to store), under any interleaving of the routes
\* and the auto-start thread.
C1_AtMostOneLivePerSlot ==
  \A id \in Slots :
    /\ Cardinality(LiveOf(id)) <= 1
    /\ \A p \in LiveOf(id) : terminals[id].process = p \/ BeingStored(p)

\* C2: when start_terminal(id) found the stored process running and returns
\* True, at its return the old process is not running, the new process is the
\* stored one and is running (unless it has exited on its own meanwhile), and
\* no other process of the slot is running.
C2_RestartLeavesOneLive ==
  [][\A t \in Threads :
       (thr[t].pc = "s_ret" /\ thr'[t].pc # "s_ret" /\ thr[t].old # None) =>
          LET id == thr[t].id
              new == thr[t].newproc
          IN /\ ~procs'[thr[t].old].alive
             /\ terminals'[id].process = new
             /\ procs'[new].alive \/ procs'[new].cause = "self"
             /\ \A p \in 1..Len(procs') :
                  (procs'[p].slot = id /\ procs'[p].alive) => p = new]_vars

\* C3: stop_terminal(id) on a slot with no stored process, or whose stored
\* process has exited, returns False at once: it does not go on to signal and
\* wait, and it changes neither terminals nor the processes.
C3_StopNotRunningFails ==
  [][\A t \in Threads :
       (thr[t].pc = "k_begin" /\ thr'[t] # thr[t] /\ ~Status(thr[t].id)) =>
          /\ thr'[t].pc # "k_int"
          /\ thr[t].op = "stop" => thr'[t].resp = "error"
          /\ thr[t].op = "stop_all" => thr'[t].results[thr[t].id] = "failed"
          /\ UNCHANGED <<terminals, procs, terminal_outputs, emitted>>]_vars

\* C4: after start_terminal(id) returned True, terminal_status(id) reports
\* running until a stop_terminal(id) is invoked or a process of the slot
\* exits on its own.
C4_RunningUntilStop == \A id \in Slots : since[id] => Status(id)

\* C5: in stop_terminal the first signal is SIGINT; SIGKILL is sent only after
\* SIGINT and the grace wait and only to a process that poll() still finds
\* running; a signal to a process that is gone is ignored; once past the test
\* of line 175 the call goes through to the end, marks the slot not running
\* and returns True.
C5_StopEscalation ==
  [][\A t \in Threads :
       LET r == thr[t]
           q == thr'[t]
       IN /\ (r.pc = "k_int" /\ q # r) =>
               /\ r.ktrace = <<>> /\ q.ktrace = <<"int">> /\ q.pc = "k_wait"
               /\ ~Alive(r.process) => procs' = procs
          /\ (r.pc = "k_wait" /\ q # r) =>
               q.ktrace = <<"int", "wait">> /\ q.pc = "k_poll" /\ procs' = procs
          /\ (r.pc = "k_poll" /\ q # r) =>
               /\ q.pc = "k_mark"
               /\ q.ktrace = IF Alive(r.process) THEN <<"int", "wait", "kill">>
                                                 ELSE <<"int", "wait">>
               /\ ~Alive(r.process) => procs' = procs
          /\ (r.pc = "k_mark" /\ q # r) =>
               /\ ~terminals'[r.id].running
               /\ r.op = "stop" => q.resp = "stopped"
               /\ r.op = "stop_all" => q.results[r.id] = "stopped"
               /\ r.op \in StartOps => q.pc = "s_drain"
          /\ \A p \in 1..Len(procs) :
               (t \in procs'[p].killers /\ t \notin procs[p].killers) =>
                  r.pc = "k_poll" /\ r.process = p /\ r.ktrace = <<"int", "wait">>]_vars

\* stop_terminal sent SIGINT, waited and sent SIGKILL
C5_Witness ==
  \E t \in Threads :
    /\ thr[t].pc = "k_mark" /\ thr[t].ktrace = <<"int", "wait", "kill">>
    /\ t \in procs[thr[t].process].killers

\* C6: when stop_all returns and no start_terminal ran while it did, every
\* slot that terminal_status still reports running is one whose process
\* outlived the grace wait and has been sent SIGKILL; a slot whose process
\* terminated on SIGINT within the grace wait is reported not running.
C6_StopAllThenStatus ==
  [][\A t \in Threads :
       (thr[t].op = "stop_all" /\ thr[t].pc # "resp" /\ thr'[t].pc = "resp"
          /\ quiet'[t]) =>
             \A id \in Slots :
               Status(id)' => procs'[terminals'[id].process].killers # {}]_vars

\* stop_all has returned undisturbed and a slot's process had terminated on
\* SIGINT within the grace wait
C6_Witness ==
  \E t \in Threads :
    /\ thr[t].op = "stop_all" /\ thr[t].pc = "resp" /\ quiet[t]
    /\ \E id \in Slots :
         /\ HasProcess(id) /\ ~Status(id)
         /\ procs[terminals[id].process].cause = "int"
         /\ thr[t].results[id] = "stopped"

\* C9: a start or stop request with an id that is no slot is answered with
\* the invalid-id error and the request changes nothing: no process is
\* spawned or signalled, no handle and no stored output changes.
C9_InvalidIdNoAction ==
  [][\A t \in Callers :
       LET q == thr'[t]
       IN (q.op \in {"start", "stop"} /\ q.id \notin Slots) =>
             /\ q.pc = "resp" /\ q.resp = "invalid"
             /\ q # thr[t] =>
                  UNCHANGED <<terminals, terminal_outputs, procs, emitted, auto_started>>]_vars

\* a request for id 99 has been answered while a process is running
C9_Witness ==
  \E t \in Callers :
    /\ thr[t].id = 99 /\ thr[t].pc = "resp" /\ thr[t].resp = "invalid"
    /\ \E p \in 1..Len(procs) : procs[p].alive

\* the lines appended to the stored output of slot id, in append order
AppendedTo(id) ==
  LET F[j \in 0..Len(emitted)] ==
        IF j = 0 THEN <<>>
        ELSE IF emitted[j][1] = id THEN Append(F[j - 1], emitted[j][2]) ELSE F[j - 1]
  IN F[Len(emitted)]

\* C7: the stored output of a slot never holds more than 100 lines, whatever
\* reader appends and spawn-failure appends have occurred, and it is the most
\* recent lines appended to the slot in append order.
C7_RingBounded ==
  \A id \in Slots :
    /\ Len(terminal_outputs[id]) <= RingCapacity
    /\ terminal_outputs[id] = Trim(AppendedTo(id))

\* the lines 1..n of process p
LinesOf(p, n) == [k \in 1..n |-> Line(p, k)]

\* C8: once a process that wrote its n >= 1 lines has exited on its own and
\* its reader has ended, terminal_status reports not running and the stored
\* output of the slot is exactly those n lines in the order written (slot
\* started once, no spawn failure).
C8_OutputDrained ==
  \A p \in 1..Len(procs) :
    (/\ Len(procs) = 1 /\ emitted = <<>>
     /\ procs[p].cause = "self" /\ procs[p].wrote >= 1 /\ procs[p].pump = "done") =>
       /\ ~Status(procs[p].slot)
       /\ terminal_outputs[procs[p].slot] = LinesOf(p, procs[p].wrote)

\* the j-th event of a start loop whose outcomes are res
LoopEvent(j, res) ==
  LET i == (j + 2) \div 3
  IN IF j % 3 = 1 THEN <<"start", i>>
     ELSE IF j % 3 = 2 THEN <<"result", i, res[i] = "started">>
     ELSE <<"sleep", i, delay[i]>>

\* C10: start_all and the auto-start loop call start_terminal for the slots in
\* ascending order, sleep the slot's delay after each call before the next,
\* go on after a failed start, and end with an outcome for every slot.
C10_StartAllSequence ==
  \A t \in Threads :
    thr[t].op \in {"start_all", "auto"} =>
      /\ \A j \in 1..Len(thr[t].log) : thr[t].log[j] = LoopEvent(j, thr[t].results)
      /\ thr[t].pc \in {"resp", "exit"} =>
           /\ Len(thr[t].log) = 3 * NumSlots
           /\ \A i \in Slots : thr[t].results[i] \in {"started", "failed"}

\* start_all has returned, slot 1 failed to start and slot 2 started
C10_Witness ==
  \E t \in Threads :
    /\ thr[t].op = "start_all" /\ thr[t].pc = "resp"
    /\ thr[t].results[1] = "failed" /\ thr[t].results[2] = "started"

\* the threads that have entered the start loop of auto_start_terminals
AutoLoops == {t \in Threads : thr[t].op = "auto" /\ thr[t].log # <<>>}

\* C11: the start loop of auto_start_terminals is entered at most once,
\* however many threads invoke auto_start_terminals and also when the second
\* invocation begins while the loop of the first is still running.
C11_AutoStartOnce == Cardinality(AutoLoops) <= 1

\* a later invocation, after the first has completed, finds the latch set
C11_LatchedAfterEnd ==
  \A t \in Threads :
    (thr[t].op = "auto" /\ thr[t].pc = "exit" /\ thr[t].log = <<>>) => auto_started

\* the lines of a text: the pieces that end with '\n'
RECURSIVE SplitLines(_, _)
SplitLines(text, cur) ==
  IF text = <<>> THEN (IF cur = <<>> THEN <<>> ELSE <<cur>>)
  ELSE IF Head(text) = NewLine THEN <<cur>> \o SplitLines(Tail(text), <<>>)
  ELSE SplitLines(Tail(text), Append(cur, Head(text)))

\* the min(5, n) most recent of the n stored lines, in stored order
MostRecent(lines) ==
  LET n == Len(lines)
      m == IF n < 5 THEN n ELSE 5
  IN [k \in 1..m |-> <<lines[n - m + k]>>]

\* C12: a client that connects is sent, after the connection_status event,
\* one terminal_output event per slot in ascending slot order, and the lines
\* of the event of a slot are exactly the min(5, n) most recent of the n
\* stored lines of the slot in stored order; a slot with no stored line
\* yields no lines.
C12_ConnectTail ==
  \A t \in Callers :
    thr[t].op = "connect" =>
      /\ thr[t].log[1] = <<"connection_status">>
      /\ \A j \in 2..Len(thr[t].log) :
           LET ev == thr[t].log[j]
           IN /\ ev[1] = "terminal_output" /\ ev[2] = j - 1
              /\ SplitLines(ev[3], <<>>) = MostRecent(terminal_outputs[j - 1])
              /\ terminal_outputs[j - 1] = <<>> => ev[3] = <<>>
      /\ thr[t].pc = "resp" => Len(thr[t].log) = NumSlots + 1

\* a client has connected while slot 1 holds more than five lines and slot 2
\* holds none
C12_Witness ==
  \E t \in Callers :
    /\ thr[t].op = "connect" /\ thr[t].pc = "resp"
    /\ Len(terminal_outputs[1]) > 5 /\ terminal_outputs[2] = <<>>

\* C13: when Popen raises in start_terminal(id), the call appends exactly one
\* error line to the stored output of the slot, emits it as a terminal_output
\* event of the slot, returns False, starts no reader thread and stores no
\* process for the slot (the slot keeps the handle it had).
C13_SpawnFailure ==
  [][\A t \in Threads :
       LET r == thr[t]
           q == thr'[t]
       IN /\ (r.pc = "s_spawn" /\ q.pc = "s_err") =>
               UNCHANGED <<terminals, terminal_outputs, procs, emitted>>
          /\ (r.pc = "s_err" /\ q # r) =>
               /\ terminal_outputs' =
                    [terminal_outputs EXCEPT ![r.id] = Append(@, ErrLine)]
               /\ emitted' = Append(emitted, <<r.id, ErrLine>>)
               /\ terminals' = terminals
               /\ procs' = procs
               /\ r.op = "start" => q.pc = "resp" /\ q.resp = "error"
               /\ r.op \in {"start_all", "auto"} =>
                    q.pc = "a_sleep" /\ q.results[r.id] = "failed"]_vars

\* a restart of a running slot whose Popen raised has returned: the error
\* line is stored and emitted and the slot still holds the stopped process
C13_Witness ==
  \E t \in Callers :
    /\ thr[t].op = "start" /\ thr[t].pc = "resp" /\ thr[t].resp = "error"
    /\ terminal_outputs[thr[t].id] = <<ErrLine>>
    /\ \E j \in 1..Len(emitted) : emitted[j] = <<thr[t].id, ErrLine>>
    /\ HasProcess(thr[t].id) /\ ~Status(thr[t].id)
    /\ \A p \in 1..Len(procs) :
         (procs[p].slot = thr[t].id /\ procs[p].pump # "none") =>
            p = terminals[thr[t].id].process

\* C14: terminal_status(id) changes nothing: terminals (the stored process
\* and the running flag of every slot) and the stored output of every slot
\* are the same after the call as before, for every id, valid or not, and
\* whatever the other thread is doing; the answer is the liveness of the
\* stored process.
C14_StatusReadOnly ==
  [][\A t \in Callers :
       (thr'[t].op = "status" /\ thr'[t] # thr[t]) =>
          /\ terminals' = terminals
          /\ terminal_outputs' = terminal_outputs
          /\ procs' = procs /\ emitted' = emitted /\ auto_started' = auto_started
          /\ thr'[t].resp = IF Status(thr'[t].id) THEN "running" ELSE "not_running"]_vars

\* terminal_status has answered not running for a slot whose process has
\* exited on its own and whose running flag is still set
C14_Witness ==
  \E t \in Callers :
    /\ thr[t].op = "status" /\ thr[t].pc = "resp" /\ thr[t].resp = "not_running"
    /\ thr[t].id \in Slots /\ HasProcess(thr[t].id)
    /\ terminals[thr[t].id].running
    /\ procs[terminals[thr[t].id].process].cause = "self"

\* the number of lines the reader of process p has read from the pipe
ReadCount(p) == procs[p].wrote - Len(procs[p].pipe)

\* the terminal_output events emitted for the lines of process p, in order
PublishedOf(p) == SelectSeq(emitted, LAMBDA e : e[2].proc = p)

\* the lines of process p in the stored output of its slot, in order
StoredOf(p) == SelectSeq(terminal_outputs[procs[p].slot], LAMBDA l : l.proc = p)

\* C15: every line the reader thread of a process has read is appended once
\* to the stored output of the slot and emitted once as a terminal_output
\* event with the slot's id and the line, in the order read.
C15_EachLineOnce ==
  \A p \in 1..Len(procs) :
    /\ StoredOf(p) = LinesOf(p, ReadCount(p))
    /\ PublishedOf(p) = [k \in 1..ReadCount(p) |-> <<procs[p].slot, Line(p, k)>>]

\* the read of the reader of process p returns no data while poll() is None
EmptyReadAlive(p) ==
  /\ procs[p].pump = "read" /\ procs'[p].pump = "poll"
  /\ procs[p].pipe = <<>> /\ procs[p].alive

\* C16: after a read that returned no data while the process is running the
\* reader thread sleeps before it reads again: no step takes the reader from
\* such a read straight back to the head of the loop.
C16_PauseAfterEmptyRead ==
  [][\A p \in 1..Len(procs) : ~EmptyReadAlive(p)]_vars

\* the read of the reader of process p raised: the handler of lines 112-114
ReadRaised(p) == procs[p].pump = "read" /\ procs'[p].pump = "sleep"

\* C17: when reading the output raises, the reader thread ends and does not
\* read again, and the step changes neither terminals, nor any thread's
\* result, nor the stored output, nor the reader of any other process.
C17_ReadErrorEndsPump ==
  [][\A p \in 1..Len(procs) :
       (procs[p].pump = "read" /\ procs'[p].pump \notin {"read", "poll"}) =>
          /\ procs'[p].pump = "done"
          /\ terminals' = terminals /\ thr' = thr
          /\ terminal_outputs' = terminal_outputs
          /\ \A o \in 1..Len(procs) : o # p => procs'[o] = procs[o]]_vars

\* what a read error leaves alone: terminals, the threads' results, the
\* stored output and the other processes and readers
C17_ReadErrorFrame ==
  [][\A p \in 1..Len(procs) :
       ReadRaised(p) =>
          /\ terminals' = terminals /\ thr' = thr
          /\ terminal_outputs' = terminal_outputs
          /\ \A o \in 1..Len(procs) : o # p => procs'[o] = procs[o]]_vars

\* the reader thread of process p is running
PumpActive(p) == p \in 1..Len(procs) /\ procs[p].pump \in {"poll", "read", "sleep"}

\* the reader thread of process p has ended
PumpDone(p) == p \in 1..Len(procs) /\ procs[p].pump = "done"

StepOnSlot(j) ==
  \/ \E t \in Threads : thr'[t] # thr[t] /\ thr[t].id = j
  \/ \E p \in 1..Len(procs) : procs'[p].pump # procs[p].pump /\ procs[p].slot = j

\* C19: the stored process, the running flag and the stored output of a slot
\* are changed only by start_terminal and stop_terminal of that slot and by
\* the reader threads of that slot: every step of an operation on slot i,
\* failed operations included, leaves those of every slot j # i as they were.
C19_SlotIndependence ==
  [][\A j \in Slots :
       (terminals'[j] # terminals[j] \/ terminal_outputs'[j] # terminal_outputs[j])
          => StepOnSlot(j)]_vars

\* start_terminal(1) has failed while slot 2 runs: slot 2 still has its
\* process, its flag and its empty stored output
C19_Witness ==
  \E t \in Callers :
    /\ thr[t].op = "start" /\ thr[t].id = 1
    /\ thr[t].pc = "resp" /\ thr[t].resp = "error"
    /\ terminal_outputs[1] = <<ErrLine>>
    /\ Status(2) /\ terminals[2].running /\ terminal_outputs[2] = <<>>
    /\ procs[terminals[2].process].pump \in {"poll", "read", "sleep"}

\* the reader threads of slot id that are running
ActivePumps(id) == {p \in 1..Len(procs) : procs[p].slot = id /\ PumpActive(p)}

\* C20: at every instant at most one reader thread of a slot is running, so
\* the stored output of a slot never has two writers; when start_terminal
\* restarts a running slot the reader of the old process has ended before
\* the reader of the new process is started.
C20_OnePumpPerSlot == \A id \in Slots : Cardinality(ActivePumps(id)) <= 1

\* C20, the restart alone: when start_terminal starts the reader of the new
\* process, the reader of the process it stopped has ended.
C20_OldPumpEndedFirst ==
  [][\A t \in Threads :
       (thr[t].pc = "s_ret" /\ thr'[t].pc # "s_ret" /\ thr[t].old # None) =>
          ~PumpActive(thr[t].old)]_vars

====
